---- MODULE Spec2Model ----
(***************************************************************************)
(* rblineprof: a line profiler for Ruby 1.8 (ext/rblineprof.c).            *)
(*                                                                         *)
(* The model follows the C source: the global struct rblineprof, the heap  *)
(* of sourcefile_t records owned by the st_table rblineprof.files, the     *)
(* event hook profiler_hook, and lineprof(), which is split at rb_yield    *)
(* into the part before the block runs (checks, cleanup, enabling), the    *)
(* line events delivered while the block runs, and the part after it       *)
(* (lineprof_ensure, then the report on normal completion).                *)
(***************************************************************************)
EXTENDS Integers, Sequences, FiniteSets, TLC

\* ------------------------------------------------------------------ bounds
MaxClock == 3       \* gettimeofday returns 1..MaxClock
MaxEvents == 3      \* samples (line events that reach line 91) per run
MaxSessions == 2    \* lineprof calls that get past their checks

\* --------------------------------------------------------- program values
NULL == "NULL"
Qnil == "Qnil"
Qfalse == "Qfalse"
FileAddr == "&rblineprof.file"

Slack == 100

\* node->nd_file of a line event: an interned path, or NULL
Paths == {"a.rb", "b.rb", "x.txt"}
Files == Paths \cup {NULL}
\* nd_line(node): the lines of short files, and of files that reach line 500
Lines == {0, 1, 2}
TallLines == {0, 1, 500}

\* the VALUEs handed to lineprof as its argument
Selectors ==
  { [class |-> "String", v |-> "a.rb"],
    [class |-> "Regexp", v |-> "/\\.rb$/"],
    [class |-> "NilClass", v |-> "nil"] }

\* rb_reg_search(re, str, 0, 0): the offset of the first match, or -1
rb_reg_search(re, str) ==
  CASE re = "/\\.rb$/" /\ str \in {"a.rb", "b.rb"} -> 1
    [] OTHER -> -1

\* rb_source_filename(s): the interned copy of s; two interned names are the
\* same pointer exactly when they are the same string
rb_source_filename(s) == s

\* sourcefile_t after MEMZERO; lines = <<>> stands for the NULL pointer (an
\* allocated array has at least Slack elements), otherwise lines is the C
\* array, a function on 0..nlines-1
NoLines == <<>>
ZeroFile ==
  [filename |-> NULL, lines |-> NoLines, nlines |-> 0, last_time |-> 0, last_line |-> 0]

\* the static initialiser of rblineprof, with the table of Init_rblineprof
InitRb ==
  [enabled |-> FALSE, source_filename |-> NULL, file |-> ZeroFile,
   source_regex |-> Qfalse, files |-> <<>>, last_file |-> NULL]

\* memory: the global struct, the heap of allocated sourcefile_t records and
\* the interpreter's list of event hooks. A record allocated for path p is
\* named by p: the table holds at most one live record per key, and all of
\* them are freed together.
InitMem == [rb |-> InitRb, hp |-> <<>>, hooks |-> {}]

Deref(M, p) == IF p = FileAddr THEN M.rb.file ELSE M.hp[p]
Store(M, p, v) ==
  IF p = FileAddr THEN [M EXCEPT !.rb.file = v] ELSE [M EXCEPT !.hp[p] = v]

\* st_lookup leaves *value untouched (NULL here) when the key is absent
st_lookup(table, key) == IF key \in DOMAIN table THEN table[key] ELSE NULL
st_insert(table, key, value) ==
  [k \in DOMAIN table \cup {key} |-> IF k = key THEN value ELSE table[k]]

\* ----------------------------------------------------------- profiler_hook
\* ALLOC_N + MEMZERO
zeros(n) == [i \in 0..(n - 1) |-> 0]

\* first_alloc without the MEMZERO of line 98: ALLOC_N gives memory that
\* holds anything, here 1 in every cell
first_alloc_uninit(sf) ==
  IF sf.lines = NoLines
  THEN [sf EXCEPT !.nlines = sf.last_line + Slack,
                  !.lines = [i \in 0..(sf.last_line + Slack - 1) |-> 1]]
  ELSE sf

\* lines 95-99: allocate space for per-line data the first time
first_alloc(sf) ==
  IF sf.lines = NoLines
  THEN [sf EXCEPT !.nlines = sf.last_line + Slack,
                  !.lines = zeros(sf.last_line + Slack)]
  ELSE sf

\* sample without lines 102-108: the array is never grown
grow_skipped(sf) == sf

\* grow with a REALLOC_N that does not keep the old contents
grow_fresh(sf) ==
  IF sf.last_line >= sf.nlines
  THEN [sf EXCEPT !.nlines = sf.last_line + Slack,
                  !.lines = zeros(sf.last_line + Slack)]
  ELSE sf

\* lines 102-108: grow the per-line array if necessary
grow(sf) ==
  IF sf.last_line >= sf.nlines
  THEN LET prev_nlines == sf.nlines
           n == sf.last_line + Slack
       IN [sf EXCEPT !.nlines = n,
                     !.lines = [i \in 0..(n - 1) |->
                                  IF i < prev_nlines THEN sf.lines[i] ELSE 0]]
  ELSE sf

\* line 111: record the sample
record_sample(sf, now) ==
  [sf EXCEPT !.lines[sf.last_line] = @ + (now - sf.last_time)]

\* lines 93-115
sample(sf, line, now) ==
  LET s1 == IF sf.last_time # 0
            THEN record_sample(grow(first_alloc(sf)), now)
            ELSE sf
  IN [s1 EXCEPT !.last_time = now, !.last_line = line]

\* track_last_file without lines 117-118: the record that was active keeps
\* its last_time
track_last_file_open(M, sourcefile) == [M EXCEPT !.rb.last_file = sourcefile]

\* lines 117-120
track_last_file(M, sourcefile) ==
  LET M1 == IF M.rb.last_file # NULL /\ M.rb.last_file # sourcefile
            THEN Store(M, M.rb.last_file,
                       [Deref(M, M.rb.last_file) EXCEPT !.last_time = 0])
            ELSE M
  IN [M1 EXCEPT !.rb.last_file = sourcefile]

\* classify with the result of rb_reg_search tested for truth, not for >= 0
classify_truthy(M, file) ==
  IF rb_reg_search(M.rb.source_regex, file) # 0
  THEN [M |-> [M EXCEPT !.rb.files = st_insert(@, file, file),
                         !.hp = st_insert(@, file, [ZeroFile EXCEPT !.filename = file])],
        sourcefile |-> file, searched |-> TRUE]
  ELSE [M |-> [M EXCEPT !.rb.files = st_insert(@, file, Qnil)],
        sourcefile |-> NULL, searched |-> TRUE]

\* lines 77-86: an unknown file is checked against the regex
classify(M, file) ==
  IF rb_reg_search(M.rb.source_regex, file) >= 0
  THEN [M |-> [M EXCEPT !.rb.files = st_insert(@, file, file),
                         !.hp = st_insert(@, file, [ZeroFile EXCEPT !.filename = file])],
        sourcefile |-> file, searched |-> TRUE]
  ELSE [M |-> [M EXCEPT !.rb.files = st_insert(@, file, Qnil)],
        sourcefile |-> NULL, searched |-> TRUE]

\* select where the return of line 68 first closes the interval of
\* rblineprof.file
select_closing(M, file) ==
  IF M.rb.source_filename # NULL
  THEN IF M.rb.source_filename = file
       THEN [M |-> [M EXCEPT !.rb.file.filename = file], sourcefile |-> FileAddr,
             searched |-> FALSE]
       ELSE [M |-> [M EXCEPT !.rb.file.last_time = 0], sourcefile |-> NULL,
             searched |-> FALSE]
  ELSE LET found == st_lookup(M.rb.files, file)
       IN IF found = Qnil THEN [M |-> M, sourcefile |-> NULL, searched |-> FALSE]
          ELSE IF found = NULL THEN classify(M, file)
          ELSE [M |-> M, sourcefile |-> found, searched |-> FALSE]

\* select without the test of line 74: a path the table holds as Qnil is
\* checked against the regex again
select_rematch(M, file) ==
  IF M.rb.source_filename # NULL
  THEN IF M.rb.source_filename = file
       THEN [M |-> [M EXCEPT !.rb.file.filename = file], sourcefile |-> FileAddr,
             searched |-> FALSE]
       ELSE [M |-> M, sourcefile |-> NULL, searched |-> FALSE]
  ELSE LET found == st_lookup(M.rb.files, file)
       IN IF found = Qnil \/ found = NULL THEN classify(M, file)
          ELSE [M |-> M, sourcefile |-> found, searched |-> FALSE]

\* lines 63-88: the record of the file, or NULL where the hook returns;
\* searched tells whether rb_reg_search was called (line 78)
select(M, file) ==
  IF M.rb.source_filename # NULL
  THEN IF M.rb.source_filename = file
       THEN [M |-> [M EXCEPT !.rb.file.filename = file], sourcefile |-> FileAddr,
             searched |-> FALSE]
       ELSE [M |-> M, sourcefile |-> NULL, searched |-> FALSE]
  ELSE LET found == st_lookup(M.rb.files, file)
       IN IF found = Qnil THEN [M |-> M, sourcefile |-> NULL, searched |-> FALSE]
          ELSE IF found = NULL THEN classify(M, file)
          ELSE [M |-> M, sourcefile |-> found, searched |-> FALSE]

\* profiler_hook without the test of line 61
profiler_hook_anyline(M, file, line, now) ==
  IF file = NULL THEN [M |-> M, sampled |-> FALSE, searched |-> FALSE]
  ELSE LET r == select(M, file)
       IN IF r.sourcefile # NULL
          THEN [M |-> track_last_file(
                        Store(r.M, r.sourcefile,
                              sample(Deref(r.M, r.sourcefile), line, now)),
                        r.sourcefile),
                sampled |-> TRUE, searched |-> r.searched]
          ELSE [M |-> r.M, sampled |-> FALSE, searched |-> r.searched]

\* lines 52-122; sampled tells whether the clock was read (line 91)
profiler_hook(M, file, line, now) ==
  IF file = NULL THEN [M |-> M, sampled |-> FALSE, searched |-> FALSE]
  ELSE IF line <= 0 THEN [M |-> M, sampled |-> FALSE, searched |-> FALSE]
  ELSE LET r == select(M, file)
       IN IF r.sourcefile # NULL
          THEN [M |-> track_last_file(
                        Store(r.M, r.sourcefile,
                              sample(Deref(r.M, r.sourcefile), line, now)),
                        r.sourcefile),
                sampled |-> TRUE, searched |-> r.searched]
          ELSE [M |-> r.M, sampled |-> FALSE, searched |-> r.searched]

\* ---------------------------------------------------------------- lineprof
\* lineprof without the st_foreach of line 186
cleanup_files_skipped(M) == M

\* lines 124-137 under st_foreach (line 186): every entry is deleted, every
\* record that is neither NULL nor Qnil is freed
cleanup_files(M) ==
  LET freed == {M.rb.files[k] : k \in DOMAIN M.rb.files} \ {NULL, Qnil}
  IN [M EXCEPT !.rb.files = <<>>,
               !.hp = [a \in DOMAIN M.hp \ freed |-> M.hp[a]]]

\* lines 187-191
cleanup_file(M) ==
  IF M.rb.file.lines # NoLines
  THEN [M EXCEPT !.rb.file.lines = NoLines, !.rb.file.nlines = 0]
  ELSE M

\* rb_add_event_hook, rb_remove_event_hook
rb_add_event_hook(M, func) == [M EXCEPT !.hooks = @ \cup {func}]
rb_remove_event_hook(M, func) == [M EXCEPT !.hooks = @ \ {func}]

\* lineprof_start without the assignment of line 185
lineprof_start_stale(M) ==
  LET M2 == cleanup_file(cleanup_files(M))
      M3 == [M2 EXCEPT !.rb.enabled = TRUE]
  IN rb_add_event_hook(M3, "profiler_hook")

\* lines 184-194: cleanup, then the profiler is enabled and hooked
lineprof_start(M) ==
  LET M1 == [M EXCEPT !.rb.last_file = NULL]
      M2 == cleanup_file(cleanup_files(M1))
      M3 == [M2 EXCEPT !.rb.enabled = TRUE]
  IN rb_add_event_hook(M3, "profiler_hook")

\* lineprof_enter without the test of rblineprof.enabled (lines 170-171)
lineprof_enter_reentrant(M, filename, block_given) ==
  IF ~block_given
  THEN [M |-> M, raised |-> "block required"]
  ELSE IF filename.class = "String"
  THEN [M |-> lineprof_start(
                [M EXCEPT !.rb.source_filename = rb_source_filename(filename.v)]),
        raised |-> "none"]
  ELSE IF filename.class = "Regexp"
  THEN [M |-> lineprof_start(
                [M EXCEPT !.rb.source_regex = filename.v,
                          !.rb.source_filename = NULL]),
        raised |-> "none"]
  ELSE [M |-> M, raised |-> "argument must be String or Regexp"]

\* lineprof_enter with the cleanup of lines 185-191 moved before the test of
\* the argument's class
lineprof_enter_eager(M, filename, block_given) ==
  IF ~block_given
  THEN [M |-> M, raised |-> "block required"]
  ELSE IF M.rb.enabled
  THEN [M |-> M, raised |-> "profiler is already enabled"]
  ELSE LET M1 == cleanup_file(cleanup_files([M EXCEPT !.rb.last_file = NULL]))
       IN IF filename.class = "String"
          THEN [M |-> lineprof_start(
                        [M1 EXCEPT !.rb.source_filename = rb_source_filename(filename.v)]),
                raised |-> "none"]
          ELSE IF filename.class = "Regexp"
          THEN [M |-> lineprof_start(
                        [M1 EXCEPT !.rb.source_regex = filename.v,
                                   !.rb.source_filename = NULL]),
                raised |-> "none"]
          ELSE [M |-> M1, raised |-> "argument must be String or Regexp"]

\* lines 167-195, up to rb_yield: the memory where the call raises or yields,
\* and the error raised ("none" when the block is entered)
lineprof_enter(M, filename, block_given) ==
  IF ~block_given
  THEN [M |-> M, raised |-> "block required"]
  ELSE IF M.rb.enabled
  THEN [M |-> M, raised |-> "profiler is already enabled"]
  ELSE IF filename.class = "String"
  THEN [M |-> lineprof_start(
                [M EXCEPT !.rb.source_filename = rb_source_filename(filename.v)]),
        raised |-> "none"]
  ELSE IF filename.class = "Regexp"
  THEN [M |-> lineprof_start(
                [M EXCEPT !.rb.source_regex = filename.v,
                          !.rb.source_filename = NULL]),
        raised |-> "none"]
  ELSE [M |-> M, raised |-> "argument must be String or Regexp"]

\* lineprof_ensure without rb_remove_event_hook (line 160)
lineprof_ensure_hooked(M) == [M EXCEPT !.rb.enabled = FALSE]

\* lines 157-162
lineprof_ensure(M) ==
  [rb_remove_event_hook(M, "profiler_hook") EXCEPT !.rb.enabled = FALSE]

\* lines 139-155 under st_foreach (line 207)
summarize_files(M) ==
  LET recs == {M.rb.files[k] : k \in DOMAIN M.rb.files} \ {NULL, Qnil}
  IN [f \in {M.hp[a].filename : a \in recs} |->
        LET a == CHOOSE a \in recs : M.hp[a].filename = f
        IN [i \in 0..(M.hp[a].nlines - 1) |-> M.hp[a].lines[i]]]

\* report with the single file's array cut after the last sampled line
report_trimmed(M) ==
  IF M.rb.source_filename # NULL
  THEN (M.rb.source_filename :>
          [i \in 0..(M.rb.file.nlines - 1) \cap 0..M.rb.file.last_line |->
             M.rb.file.lines[i]])
  ELSE summarize_files(M)

\* lines 197-210: the hash returned
report(M) ==
  IF M.rb.source_filename # NULL
  THEN (M.rb.source_filename :>
          [i \in 0..(M.rb.file.nlines - 1) |-> M.rb.file.lines[i]])
  ELSE summarize_files(M)

\* ------------------------------------------------------------------- state
VARIABLES
  mem,       \* [rb, hp, hooks]: the memory of the process
  clock,     \* what gettimeofday returns, in microseconds
  depth,     \* lineprof frames that are inside rb_yield
  sessions,  \* lineprof calls that entered their block so far
  sel,       \* the argument of the latest such call
  how,       \* how its block ended: "running", "return" or "raise"
  prev,      \* the session before the latest: its argument and its end
  carried,   \* rblineprof.file's last_line if its interval was open when the
             \* latest session began, else 0
  log,       \* the samples of the session: <<file, line, now>> at line 91
  samples,   \* how many times line 91 was reached so far
  seen,      \* files with a valid line event delivered in the session
  searches,  \* calls of rb_reg_search in the session, per path
  outside,   \* valid line events of the running block that took no sample:
             \* "none" since the latest sample, "pending" some since the
             \* latest sample, "folded" some between the two latest samples
  first,     \* the memory of a process whose first session this one is
  last       \* the latest operation and what it gave its caller

vars ==
  <<mem, clock, depth, sessions, sel, how, prev, carried, log, samples, seen,
    searches, outside, first, last>>

NoSel == [class |-> "none", v |-> "none"]
Outcome(op, err, reported, ret) ==
  [op |-> op, err |-> err, reported |-> reported, ret |-> ret]

Init ==
  /\ mem = InitMem
  /\ clock = 1
  /\ depth = 0
  /\ sessions = 0
  /\ sel = NoSel
  /\ how = "none"
  /\ prev = [sel |-> NoSel, how |-> "none"]
  /\ carried = 0
  /\ log = <<>>
  /\ samples = 0
  /\ seen = {}
  /\ searches = [p \in Paths |-> 0]
  /\ outside = "none"
  /\ first = InitMem
  /\ last = Outcome("init", "none", FALSE, <<>>)

\* lines 43-50: gettimeofday never goes backward; clock is its latest value
timeofday_usec == clock..MaxClock

\* lineprof(filename) { block }, up to rb_yield or to the rb_raise
lineprof(filename, block_given) ==
  LET r == lineprof_enter(mem, filename, block_given)
  IN /\ mem' = r.M
     /\ IF r.raised # "none"
        THEN /\ last' = Outcome("lineprof", r.raised, FALSE, <<>>)
             /\ UNCHANGED <<depth, sessions, sel, how, prev, carried, log, seen,
                             searches, outside, first>>
        ELSE /\ sessions < MaxSessions
             /\ depth' = depth + 1
             /\ sessions' = sessions + 1
             /\ sel' = filename
             /\ how' = "running"
             /\ prev' = [sel |-> sel, how |-> how]
             /\ carried' = IF mem.rb.file.last_time # 0 THEN mem.rb.file.last_line ELSE 0
             /\ log' = <<>>
             /\ seen' = {}
             /\ searches' = [p \in Paths |-> 0]
             /\ outside' = "none"
             /\ first' = lineprof_enter(InitMem, filename, block_given).M
             /\ last' = Outcome("yield", "none", FALSE, <<>>)
     /\ UNCHANGED <<clock, samples>>

\* well-formed callers: a block, a String or a Regexp, no call inside a block
lineprof_wellformed(filename) ==
  /\ filename.class \in {"String", "Regexp"}
  /\ depth = 0
  /\ lineprof(filename, TRUE)

\* the interpreter executes a line: RUBY_EVENT_LINE goes to the hooks; the clock
\* is read only by a hook that reaches line 91
line_event(file, line) ==
  /\ IF "profiler_hook" \in mem.hooks
     THEN IF profiler_hook(mem, file, line, clock).sampled
          THEN \E now \in timeofday_usec :
                 /\ samples < MaxEvents
                 /\ mem' = profiler_hook(mem, file, line, now).M
                 /\ first' = profiler_hook(first, file, line, now).M
                 /\ clock' = now
                 /\ log' = Append(log, <<file, line, now>>)
                 /\ samples' = samples + 1
          ELSE /\ mem' = profiler_hook(mem, file, line, clock).M
               /\ first' = profiler_hook(first, file, line, clock).M
               /\ UNCHANGED <<clock, log, samples>>
     ELSE UNCHANGED <<mem, first, clock, log, samples>>
  /\ seen' = IF "profiler_hook" \in mem.hooks /\ file # NULL /\ line > 0
             THEN seen \cup {file} ELSE seen
  /\ searches' = IF "profiler_hook" \in mem.hooks
                    /\ profiler_hook(mem, file, line, clock).searched
                 THEN [searches EXCEPT ![file] = @ + 1] ELSE searches
  /\ outside' = IF "profiler_hook" \in mem.hooks /\ file # NULL /\ line > 0
                THEN IF profiler_hook(mem, file, line, clock).sampled
                     THEN (IF outside = "pending" THEN "folded" ELSE "none")
                     ELSE "pending"
                ELSE outside
  /\ last' = Outcome("line", "none", FALSE, <<>>)
  /\ UNCHANGED <<depth, sessions, sel, how, prev, carried>>

\* the block returns: rb_ensure runs lineprof_ensure, lineprof builds the hash
block_returns ==
  /\ depth > 0
  /\ mem' = lineprof_ensure(mem)
  /\ depth' = depth - 1
  /\ how' = "return"
  /\ last' = Outcome("return", "none", TRUE, report(mem'))
  /\ outside' = "none"
  /\ UNCHANGED <<clock, sessions, sel, prev, carried, log, samples, seen,
                 searches, first>>

\* the block raises: rb_ensure runs lineprof_ensure and the exception goes on
block_raises ==
  /\ depth > 0
  /\ mem' = lineprof_ensure(mem)
  /\ depth' = depth - 1
  /\ how' = "raise"
  /\ last' = Outcome("raise", "block failure", FALSE, <<>>)
  /\ outside' = "none"
  /\ UNCHANGED <<clock, sessions, sel, prev, carried, log, samples, seen,
                 searches, first>>

Next ==
  \/ \E filename \in Selectors, block_given \in BOOLEAN : lineprof(filename, block_given)
  \/ \E file \in Files, line \in Lines : line_event(file, line)
  \/ block_returns
  \/ block_raises

Spec == Init /\ [][Next]_vars

\* files that reach line 500, profiled by well-formed callers
NextTall ==
  \/ \E filename \in Selectors : lineprof_wellformed(filename)
  \/ \E file \in Files, line \in TallLines : line_event(file, line)
  \/ block_returns
  \/ block_raises

SpecTall == Init /\ [][NextTall]_vars

\* ------------------------------------------------------------------ claims
RECURSIVE IntervalSum(_, _)
\* the sum, over the samples i of lg but the last that are on line L, of
\* t_{i+1} - t_i
IntervalSum(lg, L) ==
  IF Len(lg) < 2 THEN 0
  ELSE (IF lg[1][2] = L THEN lg[2][3] - lg[1][3] ELSE 0) + IntervalSum(Tail(lg), L)

Increasing(lg) == \A i \in 1..(Len(lg) - 1) : lg[i][3] < lg[i + 1][3]
At(ary, L) == IF L \in DOMAIN ary THEN ary[L] ELSE 0
Hooked == "profiler_hook" \in mem.hooks

\* C1: when a session on a single file (a String argument) returns and its
\* samples were taken at strictly increasing times, the reported array holds
\* for every line L the sum of t_{i+1} - t_i over the samples i < n on line L,
\* and nothing else.
C1_IntervalSums ==
  (last.op = "return" /\ sel.class = "String" /\ Increasing(log)) =>
    \A L \in (Lines \cup TallLines) \ {0} :
      At(last.ret[sel.v], L) = IntervalSum(log, L)

\* C2: the report of a session that follows a session with the same argument
\* is the report the same events give in the first session of a process.
C2_SessionIsolation ==
  (last.op = "return" /\ sessions >= 2 /\ prev.sel = sel) =>
    last.ret = report(first)

\* C3: when the block ends, by returning or by raising, the hook is removed
\* and enabled is false; whenever no block is running the profiler is idle
\* and unhooked; and a line event that arrives while enabled is false changes
\* nothing of the profiler.
C3_Teardown ==
  [][/\ (depth' < depth) => (~mem'.rb.enabled /\ mem'.hooks = {})
     /\ (depth' = 0) => (~mem'.rb.enabled /\ mem'.hooks = {})
     /\ (~mem.rb.enabled /\ last'.op = "line") =>
          UNCHANGED <<mem, log, samples, seen>>]_vars

\* a block that took samples has raised, and the profiler is idle
C3_Witness ==
  /\ last.op = "raise"
  /\ log # <<>>
  /\ depth = 0
  /\ ~mem.rb.enabled
  /\ ~Hooked

\* C4: at most one lineprof block runs at a time, and a call of lineprof with
\* a block made while enabled is true raises "profiler is already enabled"
\* and leaves the whole memory of the profiler (selector, records, table,
\* last_file, enabled, hook) and the session as they were.
C4_Reentrancy ==
  [][/\ depth' <= 1
     /\ \A f \in Selectors :
          (mem.rb.enabled /\ last'.op \in {"lineprof", "yield"} /\ lineprof(f, TRUE)) =>
            /\ last'.op = "lineprof"
            /\ last'.err = "profiler is already enabled"
            /\ UNCHANGED <<mem, depth, sessions, sel, log, samples, seen>>]_vars

\* a call was rejected while a session with samples and an active file runs
C4_Witness ==
  /\ last.err = "profiler is already enabled"
  /\ mem.rb.enabled
  /\ depth = 1
  /\ log # <<>>
  /\ mem.rb.last_file # NULL

\* C5: a call of lineprof without a block, or while enabled is true, or with
\* an argument that is neither a String nor a Regexp, raises its usage error
\* and changes nothing: the block is not entered, the hook list and the
\* memory of the profiler are as before.
C5_UsageErrorsAtomic ==
  [][\A f \in Selectors, b \in BOOLEAN :
       ( /\ ~b \/ mem.rb.enabled \/ f.class \notin {"String", "Regexp"}
         /\ last'.op \in {"lineprof", "yield"}
         /\ lineprof(f, b) ) =>
         /\ last'.op = "lineprof"
         /\ last'.err = (IF ~b THEN "block required"
                         ELSE IF mem.rb.enabled THEN "profiler is already enabled"
                         ELSE "argument must be String or Regexp")
         /\ UNCHANGED <<mem, depth, sessions, sel, log, samples, seen>>]_vars

\* an argument of the wrong class was refused after a session had left an
\* active file behind
C5_Witness ==
  /\ last.op = "lineprof"
  /\ last.err = "argument must be String or Regexp"
  /\ mem.rb.last_file # NULL
  /\ depth = 0


\* C6: a block that raises gives its caller the failure and no report, leaves
\* the profiler idle so that the next call with a block and a String or a
\* Regexp enters its block, and the report of the session after it is the one
\* its own events give in a fresh process.
C6_CleanAfterAbort ==
  /\ (last.op = "raise") =>
       (~last.reported /\ last.err = "block failure" /\ ~mem.rb.enabled /\ ~Hooked)
  /\ (how = "raise" /\ depth = 0) =>
       \A f \in {g \in Selectors : g.class \in {"String", "Regexp"}} :
         lineprof_enter(mem, f, TRUE).raised = "none"
  /\ (last.op = "return" /\ prev.how = "raise") => last.ret = report(first)

PatternMode == mem.rb.source_filename = NULL /\ mem.rb.source_regex # Qfalse
Excluded(p) ==
  /\ \A a \in DOMAIN mem.hp : mem.hp[a].filename # p
  /\ p \in DOMAIN mem.rb.files => mem.rb.files[p] = Qnil
  /\ mem.rb.last_file # NULL => Deref(mem, mem.rb.last_file).filename # p
  /\ last.op = "return" => p \notin DOMAIN last.ret
NoMatchExcluded ==
  \A p \in Paths :
    (PatternMode /\ rb_reg_search(mem.rb.source_regex, p) < 0) => Excluded(p)

\* C7: in regex mode a path the regex does not match has no sourcefile_t, is
\* not last_file, is no key of the returned hash, and its entry in the table
\* is Qnil from the step that inserts it to the end of the session.
C7_PatternExclusion ==
  [][/\ NoMatchExcluded
     /\ NoMatchExcluded'
     /\ \A p \in Paths :
          ( /\ PatternMode
            /\ sessions' = sessions
            /\ rb_reg_search(mem.rb.source_regex, p) < 0
            /\ p \in DOMAIN mem.rb.files ) =>
              (p \in DOMAIN mem'.rb.files /\ mem'.rb.files[p] = Qnil)]_vars

\* a regex session returned after events of x.txt, which the regex rejects,
\* and of a.rb
C7_Witness ==
  /\ PatternMode
  /\ last.op = "return"
  /\ "x.txt" \in seen
  /\ mem.rb.files["x.txt"] = Qnil
  /\ DOMAIN last.ret = {"a.rb"}

\* C8: the hash a regex session returns has as keys exactly the paths that got
\* a valid line event in this session and match the regex, and each value is
\* the record's lines array, entry for entry, nlines long.
C8_PatternReport ==
  (last.op = "return" /\ sel.class = "Regexp") =>
    /\ DOMAIN last.ret = {p \in seen : rb_reg_search(sel.v, p) >= 0}
    /\ \A p \in DOMAIN last.ret :
         LET rec == mem.hp[mem.rb.files[p]]
         IN /\ DOMAIN last.ret[p] = 0..(rec.nlines - 1)
            /\ DOMAIN rec.lines = 0..(rec.nlines - 1)
            /\ \A i \in DOMAIN rec.lines : last.ret[p][i] = rec.lines[i]

\* the second of two regex sessions returned b.rb alone, with an allocated
\* array, after an earlier session had taken a sample and x.txt was seen
C8_Witness ==
  /\ last.op = "return"
  /\ sel.class = "Regexp"
  /\ sessions = 2
  /\ prev.sel.class = "Regexp"
  /\ samples > Len(log)
  /\ "x.txt" \in seen
  /\ DOMAIN last.ret = {"b.rb"}
  /\ last.ret["b.rb"] # <<>>

\* C9: the hash a single file session returns has one key, the target path,
\* and its value is rblineprof.file.lines, entry for entry, nlines long; with
\* no sample or one sample in a first session that is the empty array.
C9_SingleFileReport ==
  (last.op = "return" /\ sel.class = "String") =>
    /\ DOMAIN last.ret = {sel.v}
    /\ DOMAIN last.ret[sel.v] = 0..(mem.rb.file.nlines - 1)
    /\ DOMAIN mem.rb.file.lines = 0..(mem.rb.file.nlines - 1)
    /\ \A i \in DOMAIN mem.rb.file.lines : last.ret[sel.v][i] = mem.rb.file.lines[i]
    /\ (sessions = 1 /\ Len(log) <= 1) => last.ret[sel.v] = <<>>

\* a first session on a.rb returned after a single sample
C9_Witness ==
  /\ last.op = "return"
  /\ sel.class = "String"
  /\ sessions = 1
  /\ Len(log) = 1
  /\ last.ret["a.rb"] = <<>>

\* the first sample of f in the session is its i-th sample, on line 500
FirstOn500(f, i) ==
  /\ i \in 1..Len(log)
  /\ log[i][1] = f
  /\ log[i][2] = 500
  /\ \A j \in 1..(i - 1) : log[j][1] # f
Sampled(f, k) == \E j \in 1..Len(log) : log[j][1] = f /\ log[j][2] = k

C11_SessionStartReset ==
  (last.op = "yield") =>
    /\ DOMAIN mem.rb.files = {}
    /\ DOMAIN mem.hp = {}
    /\ mem.rb.last_file = NULL
    /\ mem.rb.file.lines = NoLines
    /\ mem.rb.file.nlines = 0
    /\ mem.rb.file.last_time = 0

\* the sourcefile_t that events of path f use under the selector of M: in
\* single file mode rblineprof.file, in regex mode the record the table holds
\* for f; a zeroed record where there is none
Record(M, f) ==
  IF M.rb.source_filename # NULL
  THEN (IF f = M.rb.source_filename THEN M.rb.file ELSE ZeroFile)
  ELSE IF f \in DOMAIN M.rb.files /\ M.rb.files[f] # Qnil
       THEN M.hp[M.rb.files[f]]
       ELSE ZeroFile

\* the highest line among the samples of f in the session, 0 without samples
Highest(f) ==
  LET S == {log[j][2] : j \in {i \in 1..Len(log) : log[i][1] = f}}
  IN IF S = {} THEN 0 ELSE CHOOSE m \in S : \A k \in S : k <= m

\* the lines of f that were credited in the session: the line of each sample
\* of f that the next sample of the session follows in the same file, and the
\* line whose interval rblineprof.file kept open from before the session, once
\* the single file is sampled
Credited(f) ==
  {log[j][2] : j \in {i \in 1..(Len(log) - 1) : log[i][1] = f /\ log[i + 1][1] = f}}
    \cup (IF sel.class = "String" /\ sel.v = f /\ carried # 0 /\ Len(log) >= 1
          THEN {carried} ELSE {})

CapacityCoversObserved == \A f \in Paths : Record(mem, f).nlines >= Highest(f)

CapacityCoversCredited ==
  \A f \in Paths :
    /\ DOMAIN Record(mem, f).lines = 0..(Record(mem, f).nlines - 1)
    /\ \A L \in Credited(f) : 0 < L /\ L < Record(mem, f).nlines

\* within a session no counter of rblineprof.file or of a record on the heap
\* gets smaller in this step
CountersNeverDecrease ==
  (sessions' = sessions /\ mem' # mem) =>
    /\ \A i \in DOMAIN mem.rb.file.lines :
         At(mem'.rb.file.lines, i) >= mem.rb.file.lines[i]
    /\ \A a \in DOMAIN mem.hp \cap DOMAIN mem'.hp :
         \A i \in DOMAIN mem.hp[a].lines :
           At(mem'.hp[a].lines, i) >= mem.hp[a].lines[i]

\* C12 as stated: in every state each record's nlines is at least the highest
\* line sampled so far for its file in the session, and within a session no
\* counter lines[i] decreases.
C12_RecordInvariant ==
  []CapacityCoversObserved /\ [][CountersNeverDecrease]_vars

\* C12 amended: in every state each record's lines array has exactly nlines
\* entries and nlines is greater than every line of its file that was credited
\* so far (the line of the latest sample may lie above nlines until the next
\* sample of the file credits it), and within a session no counter lines[i]
\* decreases.
C12_RecordInvariantOnCredit ==
  []CapacityCoversCredited /\ [][CountersNeverDecrease]_vars

\* line 1 of a file was credited, its array has 101 entries, and the file's
\* latest sample is on line 500, above the array
C12_Witness ==
  \E f \in Paths :
    /\ Hooked
    /\ Len(log) = 2
    /\ log[1][1] = f /\ log[1][2] = 1
    /\ log[2][1] = f /\ log[2][2] = 500
    /\ Record(mem, f).nlines = 1 + Slack
    /\ Record(mem, f).lines[1] > 0
    /\ Record(mem, f).last_line = 500

RECURSIVE SumTo(_, _)
\* ary[0] + ... + ary[n - 1]
SumTo(ary, n) == IF n = 0 THEN 0 ELSE ary[n - 1] + SumTo(ary, n - 1)

RECURSIVE SumOver(_, _)
\* the sum of all entries of the arrays rep holds for the paths of S
SumOver(rep, S) ==
  IF S = {} THEN 0
  ELSE LET p == CHOOSE q \in S : TRUE
       IN SumTo(rep[p], Cardinality(DOMAIN rep[p])) + SumOver(rep, S \ {p})

\* all the time the hash of the session would hold if the block returned now
ReportedTotal == SumOver(report(mem), DOMAIN report(mem))

\* the time between the first and the latest sample of the session
Elapsed == IF log = <<>> THEN 0 ELSE log[Len(log)][3] - log[1][3]

\* C13: at every point of a session, in either mode, the counters of all the
\* records the session reports add up to at most the time between the first
\* and the latest sample of the session.
C13_NoLeakedTime ==
  (sessions >= 1) => ReportedTotal <= Elapsed

\* every sourcefile_t of the process: rblineprof.file and the records on the
\* heap, by address
Addresses == {FileAddr} \cup DOMAIN mem.hp
Open == {a \in Addresses : Deref(mem, a).last_time # 0}

\* C14: in every state at most one sourcefile_t, rblineprof.file included, has
\* a last_time other than zero, and that one is the record last_file points
\* to; so after a sample of record R, last_file is R and the last_time of
\* every other record is zero.
C14_ActiveFile ==
  /\ Cardinality(Open) <= 1
  /\ \A a \in Open : mem.rb.last_file = a

\* C15: in regex mode a sample of file F at time t adds t - t' to F's
\* lines[l'] when the sample before it in the session was of F too, at time t'
\* on line l', and changes no other counter; when the sample before it was of
\* another file, or there was none, it changes no counter at all.
C15_FileSwitch ==
  [][(PatternMode /\ Len(log') = Len(log) + 1) =>
       LET F == log'[Len(log')][1]
           t == log'[Len(log')][3]
           same == Len(log) >= 1 /\ log[Len(log)][1] = F
           lp == IF same THEN log[Len(log)][2] ELSE 0
           tp == IF same THEN log[Len(log)][3] ELSE t
           before == Record(mem, F).lines
           after == Record(mem', F).lines
       IN /\ same => At(after, lp) = At(before, lp) + (t - tp)
          /\ \A i \in DOMAIN after \ {lp} : after[i] = At(before, i)
          /\ ~same => \A i \in DOMAIN after : after[i] = At(before, i)
          /\ \A a \in DOMAIN mem'.hp \ {mem'.rb.files[F]} :
               a \in DOMAIN mem.hp /\ mem'.hp[a].lines = mem.hp[a].lines
          /\ mem'.rb.file.lines = mem.rb.file.lines]_vars

\* a regex session sampled a.rb, b.rb and a.rb again at times 1, 2, 3 and no
\* time was credited to either file
C15_Witness ==
  /\ PatternMode
  /\ Hooked
  /\ Len(log) = 3
  /\ log[1][1] = "a.rb" /\ log[2][1] = "b.rb" /\ log[3][1] = "a.rb"
  /\ log[1][3] < log[2][3] /\ log[2][3] < log[3][3]
  /\ Record(mem, "a.rb").filename = "a.rb"
  /\ Record(mem, "b.rb").filename = "b.rb"
  /\ Record(mem, "a.rb").lines = NoLines
  /\ Record(mem, "b.rb").lines = NoLines

\* the hook returns at line 68, 75 or 85 for this path
OutOfScope(file) == file # NULL /\ select(mem, file).sourcefile = NULL

\* C16: a line event of a file that is out of scope (not the single file; in
\* regex mode a path the table holds as Qnil or the regex does not match)
\* leaves rblineprof.file, every record on the heap and last_file as they
\* were and takes no sample; and when such events came between two samples
\* that follow each other in one file, the second sample credits the whole
\* time between the two to the line of the first.
C16_OutOfScopeFrame ==
  [][/\ \A file \in Paths, line \in (Lines \cup TallLines) \ {0} :
          ( /\ Hooked
            /\ last'.op = "line"
            /\ OutOfScope(file)
            /\ line_event(file, line) ) =>
            /\ mem'.rb.file = mem.rb.file
            /\ mem'.hp = mem.hp
            /\ mem'.rb.last_file = mem.rb.last_file
            /\ UNCHANGED <<clock, log, samples>>
     /\ ( /\ outside = "pending"
          /\ Len(log') = Len(log) + 1
          /\ Len(log) >= 1
          /\ log[Len(log)][1] = log'[Len(log')][1] ) =>
          LET F == log'[Len(log')][1]
              lp == log[Len(log)][2]
          IN At(Record(mem', F).lines, lp) =
               At(Record(mem, F).lines, lp) + (log'[Len(log')][3] - log[Len(log)][3])]_vars

\* in a first session two samples of one file were taken at different times,
\* line events of another, out-of-scope file came between them, and the line
\* of the first sample holds the whole time between the two
C16_Witness ==
  /\ Hooked
  /\ sessions = 1
  /\ outside = "folded"
  /\ Len(log) = 2
  /\ log[1][1] = log[2][1]
  /\ log[1][3] < log[2][3]
  /\ seen \ {log[1][1]} # {}
  /\ Record(mem, log[1][1]).lines[log[1][2]] = log[2][3] - log[1][3]

\* C17: in a regex session rb_reg_search is called at most once for each path,
\* and only by the first valid line event of the path, which does call it;
\* once the table holds a path, as Qnil or with a record, no later event of
\* the session changes that entry, and a record in the table stays on the
\* heap under the same filename.
C17_ClassifyOnce ==
  /\ [](\A p \in Paths : searches[p] <= 1)
  /\ [][(PatternMode /\ sessions' = sessions) =>
          \A p \in Paths :
            /\ (searches'[p] # searches[p]) =>
                 (p \notin seen /\ p \in seen' /\ p \notin DOMAIN mem.rb.files)
            /\ (p \notin seen /\ p \in seen') => searches'[p] = searches[p] + 1
            /\ (p \in DOMAIN mem.rb.files) =>
                 /\ p \in DOMAIN mem'.rb.files
                 /\ mem'.rb.files[p] = mem.rb.files[p]
                 /\ (mem.rb.files[p] # Qnil) =>
                      /\ mem'.rb.files[p] \in DOMAIN mem'.hp
                      /\ mem'.hp[mem'.rb.files[p]].filename = p]_vars

\* a regex session took three samples of a.rb and saw x.txt, with one call of
\* rb_reg_search for each of the two paths
C17_Witness ==
  /\ PatternMode
  /\ Hooked
  /\ Len(log) = 3
  /\ \A i \in 1..3 : log[i][1] = "a.rb"
  /\ searches["a.rb"] = 1
  /\ searches["x.txt"] = 1
  /\ searches["b.rb"] = 0
  /\ mem.rb.files["a.rb"] \in DOMAIN mem.hp
  /\ mem.rb.files["x.txt"] = Qnil

\* C18: a line event whose nd_file is NULL or whose line is 0 or less changes
\* nothing: the table, rblineprof.file, the heap and last_file are as before,
\* no sample is taken and rb_reg_search is not called.
C18_IgnoredEvents ==
  [][\A file \in Files, line \in Lines \cup TallLines :
       ( /\ file = NULL \/ line <= 0
         /\ last'.op = "line"
         /\ line_event(file, line) ) =>
         UNCHANGED <<mem, clock, log, samples, seen, searches, outside>>]_vars

\* in a regex session that follows a session with samples, line events were
\* delivered and none was valid: the table is still empty
C18_Witness ==
  /\ PatternMode
  /\ Hooked
  /\ sessions = 2
  /\ samples > 0
  /\ last.op = "line"
  /\ seen = {}
  /\ DOMAIN mem.rb.files = {}
  /\ mem.rb.last_file = NULL

\* C19: whenever a sample credits time (the record's last_time is not zero at
\* line 93), the index written at line 111, the record's last_line, is above
\* 0 and below the record's nlines at the write, and the array has nlines
\* entries; in every session, also a single file session after another.
C19_BoundsSafety ==
  [][(Len(log') = Len(log) + 1) =>
       LET F == log'[Len(log')][1]
           before == Record(mem, F)
           after == Record(mem', F)
       IN (before.last_time # 0) =>
            /\ 0 < before.last_line
            /\ before.last_line < after.nlines
            /\ DOMAIN after.lines = 0..(after.nlines - 1)]_vars

\* a single file session that follows one whose latest sample was on line 1
\* sampled line 500 and then another line: the first sample credited line 1
\* in a new array of 101 entries, the second credited line 500 after the
\* array had grown to 600
C19_Witness ==
  /\ Hooked
  /\ sessions = 2
  /\ sel.class = "String"
  /\ prev.sel.class = "String"
  /\ carried = 1
  /\ Len(log) = 2
  /\ log[1][2] = 500
  /\ log[1][3] < log[2][3]
  /\ mem.rb.file.nlines = 500 + Slack
  /\ mem.rb.file.lines[500] = log[2][3] - log[1][3]

\* the sourcefile_t records the table owns
Owned == {mem.rb.files[k] : k \in DOMAIN mem.rb.files} \ {Qnil}

\* C20: in every state last_file is NULL, the address of rblineprof.file, or
\* the address of a record that the table owns and that is on the heap; and
\* every record the table owns is on the heap, so that no line event follows
\* a pointer to a record that the cleanup of a session start has freed.
C20_NoDanglingLastFile ==
  /\ mem.rb.last_file \in {NULL, FileAddr} \cup Owned
  /\ Owned \subseteq DOMAIN mem.hp

\* a single file session took a sample after a regex session that raised
\* while one of its records was the active file; that record was freed
C20_Witness ==
  /\ Hooked
  /\ sessions = 2
  /\ prev.sel.class = "Regexp"
  /\ prev.how = "raise"
  /\ sel.class = "String"
  /\ samples > Len(log)
  /\ Len(log) >= 1
  /\ mem.rb.last_file = FileAddr
  /\ DOMAIN mem.hp = {}

====
